---- MODULE Spec2Model ----
(***************************************************************************)
(* Model of cimpyorm/api.py: the ingestion pipeline (parse), the empty     *)
(* dataset constructor (create_empty_dataset) and the integrity verifier   *)
(* (lint).  The persistence backend, the SQLAlchemy session, the Parser    *)
(* and the Schema are collaborators of api.py; they are modelled by the    *)
(* interface api.py uses (a durable store plus one open transaction).      *)
(***************************************************************************)
EXTENDS Integers, Sequences, FiniteSets, TLC

\* ------------------------------------------------------------------ bounds
MaxFiles == 2
MaxElems == 2
MaxInst == 2
MaxVal == 2

VARIABLES
    \* ---- parse / create_empty_dataset: the backend and the call's locals
    pc,          \* position of the running api call
    files,       \* Parser.get_files(dataset): path -> declared version tag
    schemaArg,   \* the schema argument of parse: TRUE when given explicitly
    dialect,     \* engine.dialect.name
    db,          \* the durable (committed) content of the backend
    txn,         \* the content pending in the session's open transaction
    oplog,       \* the backend/session calls issued so far, in order
    raised,      \* the exception that left the call, or "none"
    raisedAt,    \* the position at which it was raised
    elements,    \* parse: the typed instances Parser.parse_entries returned
    backendArg,  \* create_empty_dataset: "class" or "instance"
    \* ---- lint: the committed dataset, the schema and the locals of lint
    schema,      \* class label -> descriptor of the property the class owns
    rows,        \* class label -> (instance id -> stored value of that property)
    enumNames,   \* the rows of session.query(CIMEnumValue.name)
    lpos,        \* index in class_hierarchy("dfs") of the class lint visits next
    lstate,      \* "idle" | "running" | "returned" | "raised"
    lcause,      \* the exception that left lint
    events,      \* the local events
    col,         \* the local col: unbound, or the column of class col.cls
    validity     \* the local validity: unbound, or the except_ query last built

parseVars == <<pc, files, schemaArg, dialect, db, txn, oplog, raised, raisedAt, elements,
              backendArg>>
lintVars == <<schema, rows, enumNames, lpos, lstate, lcause, events, col, validity>>
vars == <<pc, files, schemaArg, dialect, db, txn, oplog, raised, raisedAt, elements, backendArg,
          schema, rows, enumNames, lpos, lstate, lcause, events, col, validity>>

\* ------------------------------------------------------------ the backend
NoVersion == "none"
Versions == {NoVersion, "16"}
Dialects == {"sqlite", "mysql", "postgresql"}

EmptyTxn == [sources |-> {}, instances |-> {}]
EmptyDb == [sources |-> {}, instances |-> {}, tables |-> FALSE]

\* what an earlier dataset may have left in the backend
OldDbs ==
    {EmptyDb} \cup
    [sources : SUBSET (1..MaxFiles), instances : SUBSET {0, 42}, tables : {TRUE}]

\* backend.drop(); backend.reset()
BackendDrop(d) == EmptyDb

\* session.add_all / session.bulk_save_objects: pending in the transaction
SessionAddAll(t, srcs) == [t EXCEPT !.sources = @ \cup srcs]
SessionBulkSave(t, els) == [t EXCEPT !.instances = @ \cup els]

\* session.commit(): the pending content becomes durable
SessionCommit(d, t) ==
    [d EXCEPT !.sources = @ \cup t.sources, !.instances = @ \cup t.instances]

\* backend.generate_tables(schema): storage for every class of the schema
GenerateTables(d) == [d EXCEPT !.tables = TRUE]

\* Parser.get_cim_version(sources): the version tag some Source declares
HasVersion(f) == \E p \in DOMAIN f : f[p] # NoVersion

\* a bulk_save_objects, flush or commit that raises leaves the session's
\* transaction rolled back
SessionRollback(t) == EmptyTxn

\* what a typed instance query sees: durable rows plus the open transaction
Queryable == db.instances \cup txn.instances

\* a local of lint that no iteration has assigned yet
Unbound == [bound |-> FALSE, cls |-> "none", range |-> "None", target |-> "none"]

IdleLint ==
    /\ schema = <<>> /\ rows = <<>> /\ enumNames = {} /\ lpos = 0
    /\ lstate = "idle" /\ lcause = "none" /\ events = <<>>
    /\ col = Unbound /\ validity = Unbound

\* ------------------------------------------------------------------ parse
InitParse ==
    /\ pc = "start"
    /\ files \in UNION {[S -> Versions] : S \in SUBSET (1..MaxFiles)}
    /\ schemaArg \in BOOLEAN
    /\ dialect \in Dialects
    /\ db \in OldDbs
    /\ txn = EmptyTxn
    /\ oplog = <<>>
    /\ raised = "none"
    /\ raisedAt = "none"
    /\ elements = {}
    /\ backendArg = "class"
    /\ IdleLint

Raise(err) ==
    /\ raised' = err
    /\ raisedAt' = pc
    /\ pc' = "raised"

\* lines 118-123: update_path, drop, reset, connect
ParseDropReset ==
    /\ pc = "start"
    /\ db' = BackendDrop(db)
    /\ oplog' = oplog \o <<"drop", "reset", "connect">>
    /\ pc' = "get_files"
    /\ UNCHANGED <<files, schemaArg, dialect, txn, raised, raisedAt, elements, backendArg>>
    /\ UNCHANGED lintVars

\* line 125: files = Parser.get_files(dataset); the Parser raises when the
\* dataset path yields no document (spec 4.1)
ParseGetFiles ==
    /\ pc = "get_files"
    /\ IF DOMAIN files = {}
         THEN Raise("NoFilesFound")
         ELSE pc' = "add_sources" /\ UNCHANGED <<raised, raisedAt>>
    /\ UNCHANGED <<files, schemaArg, dialect, db, txn, oplog, elements, backendArg>>
    /\ UNCHANGED lintVars

\* lines 127-128: sources = frozenset(...); session.add_all(sources)
ParseAddSources ==
    /\ pc = "add_sources"
    /\ txn' = SessionAddAll(txn, DOMAIN files)
    /\ oplog' = Append(oplog, "add_all")
    /\ pc' = "commit_sources"
    /\ UNCHANGED <<files, schemaArg, dialect, db, raised, raisedAt, elements, backendArg>>
    /\ UNCHANGED lintVars

\* mutant: the Source records are added but their commit is left out
ParseCommitSources_noCommit ==
    /\ pc = "commit_sources"
    /\ pc' = "resolve_schema"
    /\ UNCHANGED <<files, schemaArg, dialect, db, txn, oplog, raised, raisedAt, elements,
                   backendArg>>
    /\ UNCHANGED lintVars

\* line 129: session.commit()
ParseCommitSources ==
    /\ pc = "commit_sources"
    /\ db' = SessionCommit(db, txn)
    /\ txn' = EmptyTxn
    /\ oplog' = Append(oplog, "commit")
    /\ pc' = "resolve_schema"
    /\ UNCHANGED <<files, schemaArg, dialect, raised, raisedAt, elements, backendArg>>
    /\ UNCHANGED lintVars

\* mutant: the tables are generated before the version is inferred
ParseResolveSchema_tablesFirst ==
    /\ pc = "resolve_schema"
    /\ db' = GenerateTables(db)
    /\ oplog' = oplog \o <<"load_schema", "generate_tables">>
    /\ IF ~schemaArg /\ ~HasVersion(files)
         THEN Raise("NoSchemaVersion")
         ELSE pc' = "parse_entries" /\ UNCHANGED <<raised, raisedAt>>
    /\ UNCHANGED <<files, schemaArg, dialect, txn, elements, backendArg>>
    /\ UNCHANGED lintVars

\* lines 130-137: version inference, Schema(...), backend.generate_tables;
\* Parser.get_cim_version raises when no Source declares a version (spec 4.2),
\* and loading the schema may fail
ParseResolveSchema ==
    /\ pc = "resolve_schema"
    /\ \/ /\ ~schemaArg /\ ~HasVersion(files)
          /\ Raise("NoSchemaVersion")
          /\ UNCHANGED <<db, oplog>>
       \/ /\ schemaArg \/ HasVersion(files)
          /\ \/ /\ db' = GenerateTables(db)
                /\ oplog' = oplog \o <<"load_schema", "generate_tables">>
                /\ pc' = "parse_entries"
                /\ UNCHANGED <<raised, raisedAt>>
             \/ /\ Raise("SchemaLoadError")
                /\ oplog' = Append(oplog, "load_schema")
                /\ UNCHANGED db
    /\ UNCHANGED <<files, schemaArg, dialect, txn, elements, backendArg>>
    /\ UNCHANGED lintVars

\* lines 140-141: Parser.merge_sources, Parser.parse_entries
ParseEntries ==
    /\ pc = "parse_entries"
    /\ \/ /\ \E els \in SUBSET (1..MaxElems) : elements' = els
          /\ pc' = "bulk_save"
          /\ UNCHANGED <<raised, raisedAt>>
       \/ /\ Raise("UnknownType")
          /\ UNCHANGED elements
    /\ UNCHANGED <<files, schemaArg, dialect, db, txn, oplog, backendArg>>
    /\ UNCHANGED lintVars

\* mutant: the bulk insert is committed at once, before flush and commit
ParseBulkSave_autocommit ==
    /\ pc = "bulk_save"
    /\ oplog' = Append(oplog, "bulk_save_objects")
    /\ db' = SessionCommit(db, SessionBulkSave(txn, elements))
    /\ txn' = EmptyTxn
    /\ pc' = "flush"
    /\ UNCHANGED <<files, schemaArg, dialect, raised, raisedAt, elements, backendArg>>
    /\ UNCHANGED lintVars

\* line 143: session.bulk_save_objects(elements)
ParseBulkSave ==
    /\ pc = "bulk_save"
    /\ oplog' = Append(oplog, "bulk_save_objects")
    /\ \/ /\ txn' = SessionBulkSave(txn, elements)
          /\ pc' = "flush"
          /\ UNCHANGED <<raised, raisedAt>>
       \/ /\ txn' = SessionRollback(SessionBulkSave(txn, elements))
          /\ Raise("BackendError")
    /\ UNCHANGED <<files, schemaArg, dialect, db, elements, backendArg>>
    /\ UNCHANGED lintVars

\* line 144: session.flush()
ParseFlush ==
    /\ pc = "flush"
    /\ oplog' = Append(oplog, "flush")
    /\ \/ /\ pc' = "commit"
          /\ UNCHANGED <<txn, raised, raisedAt>>
       \/ /\ txn' = SessionRollback(txn)
          /\ Raise("BackendError")
    /\ UNCHANGED <<files, schemaArg, dialect, db, elements, backendArg>>
    /\ UNCHANGED lintVars

\* line 146: session.commit()
ParseCommit ==
    /\ pc = "commit"
    /\ oplog' = Append(oplog, "commit")
    /\ \/ /\ db' = SessionCommit(db, txn)
          /\ txn' = EmptyTxn
          /\ pc' = "fk_checks"
          /\ UNCHANGED <<raised, raisedAt>>
       \/ /\ txn' = SessionRollback(txn)
          /\ Raise("BackendError")
          /\ UNCHANGED db
    /\ UNCHANGED <<files, schemaArg, dialect, elements, backendArg>>
    /\ UNCHANGED lintVars

\* mutant: the toggle is issued whatever the dialect
ParseForeignKeys_anyDialect ==
    /\ pc = "fk_checks"
    /\ oplog' = Append(oplog, "foreign_key_checks_on")
    /\ pc' = "returned"
    /\ UNCHANGED <<files, schemaArg, dialect, db, txn, raised, raisedAt, elements, backendArg>>
    /\ UNCHANGED lintVars

\* lines 149-151: if engine.dialect.name == "mysql": SET foreign_key_checks='ON'
ParseForeignKeys ==
    /\ pc = "fk_checks"
    /\ IF dialect = "mysql"
         THEN oplog' = Append(oplog, "foreign_key_checks_on")
         ELSE UNCHANGED oplog
    /\ pc' = "returned"
    /\ UNCHANGED <<files, schemaArg, dialect, db, txn, raised, raisedAt, elements, backendArg>>
    /\ UNCHANGED lintVars

NextParse ==
    \/ ParseDropReset
    \/ ParseGetFiles
    \/ ParseAddSources
    \/ ParseCommitSources
    \/ ParseResolveSchema
    \/ ParseEntries
    \/ ParseBulkSave
    \/ ParseFlush
    \/ ParseCommit
    \/ ParseForeignKeys

SpecParse == InitParse /\ [][NextParse]_vars

\* ------------------------------------------------------- claims on parse
Positions(op) == {i \in 1..Len(oplog) : oplog[i] = op}
WriteOps == {"add_all", "commit", "generate_tables", "bulk_save_objects", "flush",
             "foreign_key_checks_on"}
ConfigErrors == {"NoFilesFound", "NoSchemaVersion"}
IngestStages == {"bulk_save", "flush", "commit"}
AfterSources == {"resolve_schema", "parse_entries", "bulk_save", "flush", "commit",
                 "fk_checks", "returned"}

\* C1: a failure during bulk_save_objects, flush or commit leaves parse as an
\* exception and afterwards no typed instance of the ingest is queryable; parse
\* returns normally only with the whole ingest committed.
C1_AllOrNothingIngest ==
    /\ (pc = "raised" /\ raisedAt \in IngestStages) =>
           (raised = "BackendError" /\ Queryable = {})
    /\ (pc \in IngestStages) => db.instances = {}
    /\ (pc = "returned") => (db.instances = elements /\ txn = EmptyTxn)

C1_Witness ==
    pc = "raised" /\ raisedAt = "flush" /\ elements # {} /\ Queryable = {}

\* C5 (as claimed): at a configuration error nothing has been written or
\* committed to the backend.
C5_NoWriteBeforeConfigError ==
    (raised \in ConfigErrors) =>
        (db = EmptyDb /\ txn = EmptyTxn /\ \A i \in 1..Len(oplog) : oplog[i] \notin WriteOps)

\* C5 (amended): at a configuration error no typed instance and no table has been
\* written; with no input files nothing at all has been written, and with no
\* inferable schema version exactly the Source records have been committed.
C5_ConfigErrorWritesOnlySources ==
    (raised \in ConfigErrors) =>
        /\ db.instances = {} /\ ~db.tables /\ txn = EmptyTxn
        /\ Positions("bulk_save_objects") = {} /\ Positions("generate_tables") = {}
        /\ (raised = "NoFilesFound") =>
               (db = EmptyDb /\ oplog = <<"drop", "reset", "connect">>)
        /\ (raised = "NoSchemaVersion") =>
               (db.sources = DOMAIN files
                /\ oplog = <<"drop", "reset", "connect", "add_all", "commit">>)

C5_Witness ==
    raised = "NoSchemaVersion" /\ db.sources = DOMAIN files /\ DOMAIN files # {}

\* C6: the Source records are added and committed in one transaction before
\* schema resolution begins, and stay committed when a later stage fails.
C6_SourcesCommittedFirst ==
    /\ (pc \in AfterSources \/ (pc = "raised" /\ raisedAt \in AfterSources)) =>
           /\ db.sources = DOMAIN files
           /\ SubSeq(oplog, 1, 5) = <<"drop", "reset", "connect", "add_all", "commit">>
    /\ Cardinality(Positions("add_all")) <= 1
    /\ \A i \in Positions("load_schema") \cup Positions("generate_tables") : i > 5

C6_Witness ==
    /\ pc = "raised" /\ raisedAt = "flush"
    /\ DOMAIN files # {} /\ db.sources = DOMAIN files

\* C9: drop and reset precede every write, there is one bulk insert, the flush
\* lies between the bulk insert and the commit, and the foreign-key toggle is
\* issued only after the finished commit and only on mysql.
C9_WriteBarrierOrder ==
    /\ \A i \in 1..Len(oplog) :
           oplog[i] \in WriteOps => (i > 2 /\ oplog[1] = "drop" /\ oplog[2] = "reset")
    /\ Cardinality(Positions("bulk_save_objects")) <= 1
    /\ (pc \in {"fk_checks", "returned"}) =>
           Cardinality(Positions("bulk_save_objects")) = 1
    /\ \A i \in Positions("flush") : i > 1 /\ oplog[i - 1] = "bulk_save_objects"
    /\ \A i \in Positions("commit") :
           (\E j \in Positions("bulk_save_objects") : j < i) => oplog[i - 1] = "flush"
    /\ \A i \in Positions("foreign_key_checks_on") :
           /\ dialect = "mysql"
           /\ i = Len(oplog) /\ oplog[i - 1] = "commit"
           /\ db.instances = elements /\ txn = EmptyTxn
    /\ (pc = "returned" /\ dialect = "mysql") => Positions("foreign_key_checks_on") # {}
    /\ (dialect # "mysql") => Positions("foreign_key_checks_on") = {}

C9_Witness ==
    /\ pc = "returned" /\ dialect = "mysql" /\ elements # {}
    /\ oplog[Len(oplog)] = "foreign_key_checks_on"

\* ------------------------------------------------------------------- lint
\* model.schema.class_hierarchy("dfs"); every class owns one property
Hierarchy == <<"A", "B">>
Classes == {Hierarchy[i] : i \in 1..Len(Hierarchy)}
Other(c) == IF c = "A" THEN "B" ELSE "A"

\* None: the null of a storage column and the Unique of a Missing event
NULL == 0
Values == 0..MaxVal
EnumUniverse == {1}

\* a property descriptor: prop.optional, prop.used, the kind of prop.range
\* ("None" when prop.range is falsy, "Primitive" when it is neither a CIMClass
\* nor a CIMEnum) and whether the class exposes the <full_label>_id/_name column
Prop(opt, usd, rng, fk) == [optional |-> opt, used |-> usd, range |-> rng, fk |-> fk]
PropDescriptors ==
    { Prop(FALSE, TRUE, "Class", TRUE),        \* mandatory reference
      Prop(FALSE, TRUE, "Enum", TRUE),         \* mandatory enum
      Prop(FALSE, TRUE, "Class", FALSE),       \* many-to-many: no single column
      Prop(FALSE, TRUE, "Primitive", FALSE),   \* mandatory, range not a reference
      Prop(FALSE, TRUE, "None", FALSE),        \* mandatory, no range
      Prop(TRUE, TRUE, "Class", TRUE),         \* optional
      Prop(FALSE, FALSE, "Class", TRUE) }      \* unused

\* the stored column of n instances (ids 1..n), listed in the order of the
\* stored value: every query of lint is a count or a set, so the order is free
Columns(n) == {f \in [1..n -> Values] : \A i \in 1..n : \A j \in i..n : f[i] <= f[j]}

IdleParse ==
    /\ pc = "idle" /\ files = <<>> /\ schemaArg = FALSE /\ dialect = "sqlite"
    /\ db = EmptyDb /\ txn = EmptyTxn /\ oplog = <<>> /\ raised = "none"
    /\ raisedAt = "none" /\ elements = {} /\ backendArg = "class"

InitLint ==
    /\ schema \in [Classes -> PropDescriptors]
    /\ rows \in [Classes -> UNION {Columns(n) : n \in 0..MaxInst}]
    /\ enumNames \in SUBSET EnumUniverse
    /\ lpos = 1
    /\ lstate = "running"
    /\ lcause = "none"
    /\ events = <<>>
    /\ col = Unbound
    /\ validity = Unbound
    /\ IdleParse

\* line 223/226: query = session.query(CIM_class.class_); query.count()
QueryCount(c) == Cardinality(DOMAIN rows[c])

\* line 227: query.filter_by(**{prop.full_label: None}).count()
FilterNullCount(c) == Cardinality({i \in DOMAIN rows[c] : rows[c][i] = NULL})

\* lines 229-234
MissingEvent(c, total, objects) ==
    [Class |-> c, Property |-> c, Total |-> total, Type |-> "Missing",
     Violations |-> objects, Unique |-> NULL]

\* mutant: the event is emitted with the instance count as its violation count
MissingCheck_totalAsViolations(evs, c) ==
    IF FilterNullCount(c) # 0
      THEN Append(evs, MissingEvent(c, QueryCount(c), QueryCount(c)))
      ELSE evs

\* lines 226-236: the missing-value check appended to the events evs
MissingCheck(evs, c) ==
    IF FilterNullCount(c) # 0
      THEN Append(evs, MissingEvent(c, QueryCount(c), FilterNullCount(c)))
      ELSE evs

\* lines 240-245: col and the except_ query built for the property of class c
ColOf(c) == [bound |-> TRUE, cls |-> c, range |-> schema[c].range, target |-> Other(c)]

\* the right-hand side of except_: session.query(prop.range.class_.id) or
\* session.query(CIMEnumValue.name)
TargetKeys(v) == IF v.range = "Class" THEN DOMAIN rows[v.target] ELSE enumNames

\* the rows of validity: SELECT col EXCEPT SELECT key, a set of distinct values
\* in which the null of the column is a value like any other
ExceptRows(v) == {rows[v.cls][i] : i \in DOMAIN rows[v.cls]} \ TargetKeys(v)

\* mutant: the naive test, any row of the set difference is a violation
GenuineViolation_anyRow(res) == Cardinality(res) >= 1

\* line 254: count > 1 or (count == 1 and tuple(validity.one())[0] is not None)
GenuineViolation(res) ==
    Cardinality(res) > 1 \/ (Cardinality(res) = 1 /\ NULL \notin res)

\* lines 255-256: query.filter(col.in_(vals)).count() for the query of class c;
\* IN never matches a null, and a col of another class joins its table
InCount(c, cl, vals) ==
    LET hit == {i \in DOMAIN rows[cl.cls] : rows[cl.cls][i] # NULL /\ rows[cl.cls][i] \in vals}
    IN IF cl.cls = c THEN Cardinality(hit) ELSE QueryCount(c) * Cardinality(hit)

\* lines 257-263
InvalidEvent(c, total, nonUnique, count) ==
    [Class |-> c, Property |-> c, Total |-> total, Type |-> "Invalid",
     Violations |-> nonUnique, Unique |-> count]

\* lines 222-263: one iteration of the loops, for the class at lpos
LintClass ==
    /\ lstate = "running"
    /\ lpos <= Len(Hierarchy)
    /\ LET c == Hierarchy[lpos]
           prop == schema[c]
           ev1 == MissingCheck(events, c)
           isRef == prop.range \in {"Class", "Enum"}
           col1 == IF isRef THEN ColOf(c) ELSE col
           val1 == IF isRef THEN ColOf(c) ELSE validity
           res == ExceptRows(val1)
       IN  IF prop.optional \/ ~prop.used
             THEN \* line 225: the property is skipped
                  /\ lpos' = lpos + 1
                  /\ UNCHANGED <<lstate, lcause, events, col, validity>>
           ELSE IF prop.range = "None"
             THEN \* line 237: prop.range is falsy
                  /\ events' = ev1
                  /\ lpos' = lpos + 1
                  /\ UNCHANGED <<lstate, lcause, col, validity>>
           ELSE IF isRef /\ ~prop.fk
             THEN \* lines 246-249: getattr raises AttributeError
                  /\ events' = ev1
                  /\ lpos' = lpos + 1
                  /\ UNCHANGED <<lstate, lcause, col, validity>>
           ELSE IF ~val1.bound
             THEN \* line 252: validity was never assigned (UnboundLocalError)
                  /\ events' = ev1
                  /\ lstate' = "raised"
                  /\ lcause' = "UnboundLocalError"
                  /\ UNCHANGED <<lpos, col, validity>>
           ELSE \* lines 252-263, with the col and validity now bound
                /\ events' = IF GenuineViolation(res)
                               THEN Append(ev1, InvalidEvent(c, QueryCount(c),
                                                InCount(c, col1, res), Cardinality(res)))
                               ELSE ev1
                /\ col' = col1
                /\ validity' = val1
                /\ lpos' = lpos + 1
                /\ UNCHANGED <<lstate, lcause>>
    /\ UNCHANGED <<schema, rows, enumNames>>
    /\ UNCHANGED parseVars

\* a query of the iteration raises a backend error: nothing in lint catches it
\* (line 246 catches AttributeError only), so it leaves lint
LintBackendError ==
    /\ lstate = "running"
    /\ lpos <= Len(Hierarchy)
    /\ ~schema[Hierarchy[lpos]].optional /\ schema[Hierarchy[lpos]].used
    /\ \/ events' = events                                  \* lines 226-227 raise
       \/ /\ schema[Hierarchy[lpos]].range \in {"Class", "Enum"}
          /\ schema[Hierarchy[lpos]].fk
          /\ events' = MissingCheck(events, Hierarchy[lpos])  \* lines 252-256 raise
    /\ lstate' = "raised"
    /\ lcause' = "BackendError"
    /\ UNCHANGED <<schema, rows, enumNames, lpos, col, validity>>
    /\ UNCHANGED parseVars

\* lines 265-266: the events are returned, pivoted by (Type, Class, Total,
\* Property); the report is modelled by the events it is built from
LintReturn ==
    /\ lstate = "running"
    /\ lpos > Len(Hierarchy)
    /\ lstate' = "returned"
    /\ UNCHANGED <<schema, rows, enumNames, lpos, lcause, events, col, validity>>
    /\ UNCHANGED parseVars

NextLint ==
    \/ LintClass
    \/ LintBackendError
    \/ LintReturn

SpecLint == InitLint /\ [][NextLint]_vars

\* -------------------------------------------------------- claims on lint
\* the classes whose iteration lint has completed
Visited == {Hierarchy[i] : i \in 1..(lpos - 1)}
Mandatory(c) == ~schema[c].optional /\ schema[c].used
Reference(c) == schema[c].range \in {"Class", "Enum"}
EventsOf(type, c) ==
    {k \in 1..Len(events) : events[k].Type = type /\ events[k].Class = c
                             /\ events[k].Property = c}
Stored(c) == {rows[c][i] : i \in DOMAIN rows[c]}
Nulls(c) == {i \in DOMAIN rows[c] : rows[c][i] = NULL}
ValidKeys(c) == IF schema[c].range = "Class" THEN DOMAIN rows[Other(c)] ELSE enumNames
\* the distinct stored foreign values of c that resolve to no valid target
InvalidValues(c) == (Stored(c) \ {NULL}) \ ValidKeys(c)

\* C2: for a visited class with a mandatory, used property a Missing event
\* exists iff some instance stores null, and it carries the instance count as
\* Total and the number of null instances as Violations.
C2_MandatoryValueDetection ==
    \A c \in Visited : Mandatory(c) =>
        /\ (EventsOf("Missing", c) # {}) <=> (Nulls(c) # {})
        /\ Cardinality(EventsOf("Missing", c)) <= 1
        /\ \A k \in EventsOf("Missing", c) :
               /\ events[k].Total = Cardinality(DOMAIN rows[c])
               /\ events[k].Violations = Cardinality(Nulls(c))

C2_Witness ==
    /\ lstate = "returned"
    /\ \E c \in Classes : \E k \in EventsOf("Missing", c) :
           events[k].Total = 2 /\ events[k].Violations = 1

\* C3 (as claimed): with an empty set of valid target keys lint emits no Invalid
\* event for the property, whatever values the instances store.
C3_EmptyRangeNoInvalid ==
    \A c \in Visited :
        (Mandatory(c) /\ Reference(c) /\ ValidKeys(c) = {}) => EventsOf("Invalid", c) = {}

\* C3 (amended): with an empty set of valid target keys and no instance storing
\* a non-null value, lint emits no Invalid event for the property.
C3_EmptyRangeAllNullNoInvalid ==
    \A c \in Visited :
        (Mandatory(c) /\ Reference(c) /\ ValidKeys(c) = {} /\ Stored(c) \subseteq {NULL})
            => EventsOf("Invalid", c) = {}

C3_Witness ==
    /\ lstate = "returned"
    /\ \E c \in Classes :
           /\ Mandatory(c) /\ Reference(c) /\ schema[c].fk
           /\ ValidKeys(c) = {} /\ Stored(c) = {NULL}
           /\ EventsOf("Invalid", c) = {}

\* C4: an Invalid event of a mandatory, used reference property carries as Unique
\* the number of distinct stored values that resolve to no valid target and as
\* Violations the number of instances storing one of them, also when other
\* instances store null or valid values.
C4_InvalidReferenceAccounting ==
    \A c \in Visited : (Mandatory(c) /\ Reference(c) /\ schema[c].fk) =>
        \A k \in EventsOf("Invalid", c) :
            /\ events[k].Unique = Cardinality(InvalidValues(c))
            /\ events[k].Violations =
                   Cardinality({i \in DOMAIN rows[c] : rows[c][i] \in InvalidValues(c)})

\* C7: a backend error raised by one check does not abort lint.
C7_PerCheckIsolation ==
    ~(lstate = "raised" /\ lcause = "BackendError")

\* C10: every Invalid event belongs to a mandatory, used property whose range is
\* a class or an Enum and which has a foreign-key column, and is computed from
\* that property's own column and valid-target set.
C10_InvalidScopedToProperty ==
    \A k \in 1..Len(events) : events[k].Type = "Invalid" =>
        LET c == events[k].Class
        IN  /\ Mandatory(c) /\ Reference(c) /\ schema[c].fk
            /\ Stored(c) \ ValidKeys(c) # {}

\* --------------------------------------------------- create_empty_dataset
InitEmpty ==
    /\ pc = "ds_start"
    /\ backendArg \in {"class", "instance"}
    /\ db \in OldDbs
    /\ txn = EmptyTxn
    /\ oplog = <<>>
    /\ raised = "none"
    /\ raisedAt = "none"
    /\ elements = {}
    /\ files = <<>> /\ schemaArg = FALSE /\ dialect = "sqlite"
    /\ IdleLint

\* lines 163-168: backend(), drop and reset inside one try; calling an already
\* constructed backend raises TypeError, which skips the drop and the reset
EmptyConstruct ==
    /\ pc = "ds_start"
    /\ IF backendArg = "class"
         THEN /\ db' = BackendDrop(db)
              /\ oplog' = oplog \o <<"drop", "reset">>
         ELSE UNCHANGED <<db, oplog>>
    /\ pc' = "ds_schema"
    /\ UNCHANGED <<files, schemaArg, dialect, txn, raised, raisedAt, elements, backendArg>>
    /\ UNCHANGED lintVars

\* lines 169-171: backend.ORM, find_rdfs_path(version), Schema(...)
EmptyResolveSchema ==
    /\ pc = "ds_schema"
    /\ \/ /\ oplog' = Append(oplog, "load_schema")
          /\ pc' = "ds_tables"
          /\ UNCHANGED <<raised, raisedAt>>
       \/ /\ Raise("SchemaLoadError")
          /\ UNCHANGED oplog
    /\ UNCHANGED <<files, schemaArg, dialect, db, txn, elements, backendArg>>
    /\ UNCHANGED lintVars

\* lines 172-173: backend.generate_tables(schema); return dataset, schema.model
EmptyGenerateTables ==
    /\ pc = "ds_tables"
    /\ db' = GenerateTables(db)
    /\ oplog' = Append(oplog, "generate_tables")
    /\ pc' = "ds_returned"
    /\ UNCHANGED <<files, schemaArg, dialect, txn, raised, raisedAt, elements, backendArg>>
    /\ UNCHANGED lintVars

\* test_empty_dataset: term = m.Terminal(id=42); s.add(term)
TestAddTerminal ==
    /\ pc = "ds_returned"
    /\ elements' = {42}
    /\ txn' = SessionBulkSave(txn, {42})
    /\ pc' = "ds_added"
    /\ UNCHANGED <<files, schemaArg, dialect, db, oplog, raised, raisedAt, backendArg>>
    /\ UNCHANGED lintVars

\* test_empty_dataset: s.commit(); an id already stored violates the primary key
TestCommit ==
    /\ pc = "ds_added"
    /\ oplog' = Append(oplog, "commit")
    /\ IF txn.instances \cap db.instances # {}
         THEN /\ txn' = SessionRollback(txn)
              /\ Raise("IntegrityError")
              /\ UNCHANGED db
         ELSE /\ db' = SessionCommit(db, txn)
              /\ txn' = EmptyTxn
              /\ pc' = "ds_committed"
              /\ UNCHANGED <<raised, raisedAt>>
    /\ UNCHANGED <<files, schemaArg, dialect, elements, backendArg>>
    /\ UNCHANGED lintVars

NextEmpty ==
    \/ EmptyConstruct
    \/ EmptyResolveSchema
    \/ EmptyGenerateTables
    \/ TestAddTerminal
    \/ TestCommit

SpecEmpty == InitEmpty /\ [][NextEmpty]_vars

\* C8: on return of create_empty_dataset the backend has been dropped and reset,
\* holds no typed instance and has its tables; adding one Terminal and committing
\* then succeeds and leaves exactly that instance.
C8_EmptyUsableDataset ==
    /\ (pc \in {"ds_returned", "ds_added"}) =>
           /\ db.instances = {} /\ db.tables
           /\ Positions("drop") # {} /\ Positions("reset") # {}
    /\ (pc = "ds_added") => Queryable = elements
    /\ (pc = "raised") => raised # "IntegrityError"
    /\ (pc = "ds_committed") => (db.instances = elements /\ elements = {42})

\* ------------------------------------------------------ the whole program
Init == InitParse \/ InitEmpty \/ InitLint
Next == NextParse \/ NextEmpty \/ NextLint
Spec == Init /\ [][Next]_vars

====
